---- MODULE Spec2Model ----
(***************************************************************************)
(* Model of packit.specfile.Specfile: set_patches and add_patch, the patch *)
(* placement logic layered over rebase-helper's SpecFile.                  *)
(*                                                                         *)
(* A spec file is a sequence of lines.  A line is a record                 *)
(*   [k |-> kind, n |-> digits of the tag number, v |-> value]             *)
(* so that "Patch0007: b" is [k |-> "Patch", n |-> <<0,0,0,7>>, v |-> "b"] *)
(* and the empty line is [k |-> "", n |-> <<>>, v |-> ""].                 *)
(*                                                                         *)
(* Line numbers and the insertion position are 0-based, as in the source.  *)
(*                                                                         *)
(* What rebase-helper does for the calls made here:                        *)
(*  - reload() / save() re-read the file into spec_content, tags and       *)
(*    patches; save() writes str(spec_content) first.  The @saves wrapper  *)
(*    of set_patches calls save() when the method returns normally.        *)
(*  - tags.filter(name=..., valid=None) yields the tags in document order, *)
(*    whether or not rpm evaluates them; Tag.line is the line number       *)
(*    inside the tag's section.  The model keeps the tags of the main      *)
(*    section only.                                                        *)
(*  - get_applied_patches() yields the patches that %prep applies          *)
(*    (%patchN, or all of them under %autosetup); a Patch tag that %prep   *)
(*    does not use is declared but not applied.                            *)
(* An rpm error on re-reading a file that save() has written is not        *)
(* modelled: the text in storage is the one shown here in either case.     *)
(***************************************************************************)
EXTENDS Integers, Sequences, FiniteSets, TLC

VARIABLES
    disk,       \* the spec file in storage: a sequence of lines
    content,    \* self.spec_content: a sequence of sections [name, data]
    ev          \* what the last operation did (observation only)

vars == <<disk, content, ev>>

\* ---------------------------------------------------------------- bounds
MaxLen == 3     \* lines of the main section of an initial spec file
MaxDoc == 4     \* lines of a main section that still accepts patches

\* F(e), with e evaluated once
With(e, F(_)) == CHOOSE r \in {F(x) : x \in {e}} : TRUE

\* ---------------------------------------------------------------- lines
Line(k, n, v) == [k |-> k, n |-> n, v |-> v]

Blank == Line("", <<>>, "")
NameTag == Line("Name", <<>>, "pkg")
Source0 == Line("Source", <<0>>, "foo.tar.gz")
Patch1 == Line("Patch", <<1>>, "a")
Patch0007 == Line("Patch", <<0, 0, 0, 7>>, "b")
Setup == Line("%setup", <<>>, "-q")
Autosetup == Line("%autosetup", <<>>, "")
PatchMacro1 == Line("%patch", <<1>>, "-p1")
LogLine == Line("*", <<>>, "log")
Header(name) == Line(name, <<>>, "")

SectionNames == {"%prep", "%changelog"}

\* int(): the number a run of decimal digits denotes
RECURSIVE int(_)
int(ds) ==
    IF ds = <<>> THEN 0
    ELSE 10 * int(SubSeq(ds, 1, Len(ds) - 1)) + ds[Len(ds)]

\* the decimal digits of n, most significant first
RECURSIVE digits(_)
digits(n) == IF n < 10 THEN <<n>> ELSE Append(digits(n \div 10), n % 10)

RECURSIVE zfill(_, _)
zfill(ds, w) == IF Len(ds) >= w THEN ds ELSE zfill(<<0>> \o ds, w)

\* f"{n:04d}": at least four digits, padded with zeros on the left
format_04d(n) == zfill(digits(n), 4)

\* ------------------------------------------------- SpecContent <-> text
\* SpecContent(text): the text before the first section header is the
\* section "%package"; every header line opens a new section
SpecContent(text) ==
    LET heads == SelectSeq([i \in 1..Len(text) |-> i],
                           LAMBDA i : text[i].k \in SectionNames)
        stop(j) == IF j < Len(heads) THEN heads[j + 1] - 1 ELSE Len(text)
        first == IF heads = <<>> THEN Len(text) ELSE heads[1] - 1
    IN  <<[name |-> "%package", data |-> SubSeq(text, 1, first)]>>
        \o [j \in 1..Len(heads) |->
               [name |-> text[heads[j]].k,
                data |-> SubSeq(text, heads[j] + 1, stop(j))]]

RECURSIVE join_sections(_, _)
join_sections(c, i) ==
    IF i > Len(c) THEN <<>>
    ELSE (IF c[i].name = "%package" THEN <<>> ELSE <<Header(c[i].name)>>)
         \o c[i].data \o join_sections(c, i + 1)

\* str(spec_content): the text written to the file
str(c) == join_sections(c, 1)

\* spec_content.section(name): the lines of the first section so named
section(c, name) ==
    LET hits == {i \in 1..Len(c) : c[i].name = name}
    IN  IF hits = {} THEN <<>>
        ELSE c[CHOOSE i \in hits : \A j \in hits : i <= j].data

\* ------------------------------------------------------------------ tags
\* self.tags: the tag lines of the main section s, in document order,
\* each with its 0-based line number in the section
tags(s) ==
    LET at == SelectSeq([i \in 1..Len(s) |-> i],
                        LAMBDA i : s[i].k \in {"Patch", "Source"})
    IN  [j \in 1..Len(at) |->
            [name |-> s[at[j]].k, index |-> int(s[at[j]].n),
             value |-> s[at[j]].v, line |-> at[j] - 1]]

\* self.tags.filter(name="Patch*", valid=None) / (name="Source*", valid=None)
filter(ts, kind) == SelectSeq(ts, LAMBDA t : t.name = kind)

\* the patch numbers %prep applies: all of them under %autosetup,
\* otherwise those named by a %patchN line
applied_in_prep(prep, idx) ==
    \E i \in 1..Len(prep) :
        \/ prep[i].k = "%autosetup"
        \/ prep[i].k = "%patch" /\ int(prep[i].n) = idx

\* self.get_applied_patches(): the PatchObjects of the Patch tags that
\* %prep applies
get_applied_patches(ts, prep) ==
    {[name |-> t.value, index |-> t.index] :
        t \in {ts[i] : i \in {j \in 1..Len(ts) :
                  ts[j].name = "Patch" /\ applied_in_prep(prep, ts[j].index)}}}

Max(S) == CHOOSE x \in S : \A y \in S : y <= x

\* ----------------------------------------------------------- add_patch
patch_number_offsetM(applied) ==
    IF applied = {} THEN 0 ELSE Cardinality(applied)
\* max(x.index for x in self.get_applied_patches()), 0 on ValueError
patch_number_offset(applied) ==
    IF applied = {} THEN 0 ELSE Max({p.index : p \in applied})

\* "\n# " + "\n# ".join(comment.split("\n")) + "\nPatchNNNN: name",
\* split at "\n": an empty line, the comment lines, the tag line
new_content(offset, pm) ==
    <<Blank>>
    \o [i \in 1..Len(pm.specfile_comment) |->
            Line("#", <<>>, pm.specfile_comment[i])]
    \o <<Line("Patch", format_04d(1 + offset), pm.name)>>

anchor_tagsM(applied, ts) == filter(ts, "Source")
\* the tags whose last line number becomes last_source_tag_line
anchor_tags(applied, ts) ==
    IF applied # {} THEN filter(ts, "Patch") ELSE filter(ts, "Source")

\* the index of the first empty line at or after line `from`, the length
\* of the section when there is none
where(s, from) ==
    LET empty == {i \in from..(Len(s) - 1) : s[i + 1] = Blank}
    IN  IF empty = {} THEN Len(s)
        ELSE CHOOSE i \in empty : \A j \in empty : i <= j

spliceM(s, w, block) == SubSeq(s, 1, w) \o block
\* s[w:w] = block
splice(s, w, block) ==
    SubSeq(s, 1, w) \o block \o SubSeq(s, w + 1, Len(s))

\* save(): write the text, then re-read it (update())
saved_text(c) == str(c)
reload(text) == SpecContent(text)

\* self.get_applied_patches() of a parsed document
applied_of(c) == get_applied_patches(tags(section(c, "%package")),
                                     section(c, "%prep"))

\* one call of add_patch on content c with text d in storage: the new
\* content and text, whether the tag lookup raised, and what was done
add_patch_result(c, d, pm) ==
    With(section(c, "%package"), LAMBDA s :
    With(tags(s), LAMBDA ts :
    With(get_applied_patches(ts, section(c, "%prep")), LAMBDA applied :
    With(anchor_tags(applied, ts), LAMBDA anchors :
        IF anchors = <<>>
        THEN \* [...][-1] raises IndexError on an empty list
             [content |-> c, disk |-> d, err |-> TRUE, calls |-> <<>>]
        ELSE
    With(patch_number_offset(applied), LAMBDA offset :
    With(where(s, anchors[Len(anchors)].line), LAMBDA w :
    With(saved_text([c EXCEPT ![1].data =
                        splice(s, w, new_content(offset, pm))]),
         LAMBDA text :
    With(reload(text), LAMBDA c2 :
            [content |-> c2,
             disk |-> text,
             err |-> FALSE,
             calls |-> <<[pm |-> pm, before |-> s, where |-> w,
                          after |-> section(c2, "%package")]>>]))))))))

\* --------------------------------------------------------- set_patches
nothing_to_doM(patch_list) == patch_list = <<>>
\* the two early returns of set_patches
nothing_to_do(patch_list) ==
    \/ patch_list = <<>>
    \/ \A i \in 1..Len(patch_list) : patch_list[i].present_in_specfile

\* the dict built once after the reload: names of the applied patches
applied_patches(c) == {p.name : p \in applied_of(c)}

to_addM(patch_list, names) ==
    SelectSeq(patch_list, LAMBDA pm : pm.name \notin names)
\* the descriptors the loop passes to add_patch
to_add(patch_list, names) ==
    SelectSeq(patch_list,
        LAMBDA pm : ~pm.present_in_specfile /\ pm.name \notin names)

\* the loop: add_patch for each descriptor, stopping at an exception
RECURSIVE add_all(_, _)
add_all(r, todo) ==
    IF todo = <<>> \/ r.err THEN r
    ELSE With(add_patch_result(r.content, r.disk, todo[1]), LAMBDA one :
            add_all([content |-> one.content, disk |-> one.disk,
                     err |-> one.err, calls |-> r.calls \o one.calls],
                    Tail(todo)))

\* the document the loop starts from: self.reload()
loaded(c, d) == reload(d)

set_patches_result(c, d, patch_list) ==
    IF nothing_to_do(patch_list)
    THEN \* @saves: the wrapper saves after the early return
         With(saved_text(c), LAMBDA text :
            [content |-> reload(text), disk |-> text,
             err |-> FALSE, calls |-> <<>>, reloads |-> 0, loaded |-> c])
    ELSE With(loaded(c, d), LAMBDA c0 :
         With(add_all([content |-> c0, disk |-> d, err |-> FALSE,
                       calls |-> <<>>],
                      to_add(patch_list, applied_patches(c0))), LAMBDA r :
            IF r.err
            THEN \* the exception leaves the wrapper without its save
                 [content |-> r.content, disk |-> r.disk, err |-> TRUE,
                  calls |-> r.calls, reloads |-> 1, loaded |-> c0]
            ELSE With(saved_text(r.content), LAMBDA text :
                 [content |-> reload(text), disk |-> text, err |-> FALSE,
                  calls |-> r.calls, reloads |-> 1, loaded |-> c0])))

\* ---------------------------------------------------------------- inputs
Comment(name) == IF name = "a" THEN <<"fix">> ELSE <<"one", "two">>

PatchMetadata ==
    {[name |-> nm, present_in_specfile |-> p, specfile_comment |-> Comment(nm)] :
        nm \in {"a", "c"}, p \in BOOLEAN}

PatchLists ==
    {<<>>} \cup {<<x>> : x \in PatchMetadata}
           \cup {<<x, y>> : x, y \in PatchMetadata}

Alphabet == {Blank, NameTag, Source0, Patch1, Patch0007}

\* the spec files the operations start from give each Source and each
\* Patch number once
DistinctNumbers(s) ==
    \A i, j \in 1..Len(s) :
        (i # j /\ s[i].k \in {"Patch", "Source"} /\ s[i].k = s[j].k)
            => int(s[i].n) # int(s[j].n)

PackageSections ==
    {s \in UNION {[1..n -> Alphabet] : n \in 0..MaxLen} : DistinctNumbers(s)}

PrepSections == {<<Setup>>, <<Autosetup>>, <<Setup, PatchMacro1>>}

Document(pkg, prep) ==
    pkg \o <<Header("%prep")>> \o prep \o <<Header("%changelog"), LogLine>>

\* what another process may leave in storage
ExternalDocuments == {Document(<<Source0, Patch0007, NameTag>>, <<Autosetup>>)}

\* --------------------------------------------------------------- actions
Event(op, arg, pre, r, reloads, ld) ==
    [op |-> op, arg |-> arg, pre |-> pre, text |-> disk, loaded |-> ld,
     reloads |-> reloads,
     calls |-> r.calls, err |-> r.err]

Init ==
    /\ \E pkg \in PackageSections, prep \in PrepSections :
          disk = Document(pkg, prep)
    /\ content = SpecContent(disk)
    /\ ev = [op |-> "init", arg |-> <<>>, pre |-> content, text |-> disk,
             loaded |-> content,
             reloads |-> 0, calls |-> <<>>, err |-> FALSE]

\* the documents grow without bound: operations stop at MaxDoc lines
Small(c) == Len(section(c, "%package")) <= MaxDoc

add_patch(pm) ==
    /\ Small(content)
    /\ \E r \in {add_patch_result(content, disk, pm)} :
           /\ content' = r.content
           /\ disk' = r.disk
           /\ ev' = Event("add_patch", <<pm>>, content, r, 0, content)

set_patches(patch_list) ==
    /\ Small(content) /\ Small(reload(disk))
    /\ \E r \in {set_patches_result(content, disk, patch_list)} :
           /\ content' = r.content
           /\ disk' = r.disk
           /\ ev' = Event("set_patches", patch_list, content, r, r.reloads,
                          r.loaded)

\* another process rewrites the spec file between two operations
external_write(text) ==
    /\ text # disk
    /\ disk' = text
    /\ ev' = Event("write", <<>>, content,
                   [calls |-> <<>>, err |-> FALSE], 0, content)
    /\ UNCHANGED content

Next ==
    \/ \E pm \in PatchMetadata : add_patch(pm)
    \/ \E patch_list \in PatchLists : set_patches(patch_list)
    \/ \E text \in ExternalDocuments : external_write(text)

Spec == Init /\ [][Next]_vars

\* ------------------------------------------------------------ properties
pkg(c) == section(c, "%package")
PatchLines(s) == SelectSeq(s, LAMBDA l : l.k = "Patch")
Indices(s) == {int(PatchLines(s)[i].n) : i \in 1..Len(PatchLines(s))}
Names(s) == {PatchLines(s)[i].v : i \in 1..Len(PatchLines(s))}
Min(S) == CHOOSE x \in S : \A y \in S : x <= y
Top(S) == IF S = {} THEN 0 ELSE Max(S)

\* the calls of add_patch the last operation made
Calls == {ev.calls[i] : i \in 1..Len(ev.calls)}
\* the applied patches add_patch saw at a call
AppliedAt(call) ==
    get_applied_patches(tags(call.before), section(ev.loaded, "%prep"))
\* the lines a call added and the 1-based position of its Patch line
Added(call) == Len(call.after) - Len(call.before)
PatchPos(call) == call.where + Added(call)
\* 0-based line of the last tag of a kind, and of the first empty line at
\* or after line a (the section's length when there is none)
LastLine(s, kind) == Max({i - 1 : i \in {j \in 1..Len(s) : s[j].k = kind}})
EmptyFrom(s, a) == {i \in a..(Len(s) - 1) : s[i + 1] = Blank}
FirstEmpty(s, a) == IF EmptyFrom(s, a) = {} THEN Len(s) ELSE Min(EmptyFrom(s, a))
\* the anchor as the documentation words it: the last Patch tag if the
\* section declares any patch, the last Source tag otherwise
DeclaredAnchor(s) ==
    IF PatchLines(s) # <<>> THEN LastLine(s, "Patch") ELSE LastLine(s, "Source")
Skipped(pm, c) == pm.present_in_specfile \/ pm.name \in applied_patches(c)

C2_UniqueMonotonic ==
    /\ Cardinality(Indices(pkg(content))) = Len(PatchLines(pkg(content)))
    /\ \A call \in Calls :
          \A i \in Indices(call.before) :
              int(call.after[PatchPos(call)].n) > i

\* C3: the block of every call of add_patch starts at the first empty line
\* at or after the last Patch tag if the document declares any patch, and
\* otherwise at the first empty line at or after the last Source tag: the
\* lines up to that empty line stay above the block, the lines from it on
\* stay below, and the block ends with the new Patch line.
C3_Placement ==
    \A call \in Calls :
        LET s == call.before
            e == FirstEmpty(s, DeclaredAnchor(s))
        IN  /\ call.after = SubSeq(s, 1, e)
                            \o SubSeq(call.after, e + 1, e + Added(call))
                            \o SubSeq(s, e + 1, Len(s))
            /\ call.after[e + Added(call)].k = "Patch"
            /\ call.after[e + Added(call)].v = call.pm.name

C5_NothingToDo ==
    (/\ ev.op = "set_patches"
     /\ \A i \in 1..Len(ev.arg) : ev.arg[i].present_in_specfile)
    => /\ ev.reloads = 0
       /\ ev.calls = <<>>
       /\ ~ev.err
       /\ content = ev.pre

\* an all-present list while the file in storage differs from the document
C5_Witness ==
    /\ ev.op = "set_patches" /\ ev.arg # <<>>
    /\ \A i \in 1..Len(ev.arg) : ev.arg[i].present_in_specfile
    /\ SpecContent(ev.text) # ev.pre
    /\ content = ev.pre

\* C6: set_patches with a descriptor not marked present reloads once and
\* before the first add_patch, calls add_patch for exactly the descriptors
\* neither marked present nor named among the applied patches, in list
\* order, and the patches it adds get strictly increasing indices and stand
\* in the document in list order.
C6_ReloadThenInsertInOrder ==
    (/\ ev.op = "set_patches" /\ ~ev.err
     /\ \E i \in 1..Len(ev.arg) : ~ev.arg[i].present_in_specfile)
    => /\ ev.reloads = 1
       /\ ev.loaded = SpecContent(ev.text)
       /\ ev.calls # <<>> => ev.calls[1].before = pkg(SpecContent(ev.text))
       /\ [i \in 1..Len(ev.calls) |-> ev.calls[i].pm]
            = SelectSeq(ev.arg,
                  LAMBDA pm : ~Skipped(pm, SpecContent(ev.text)))
       /\ \A i \in 2..Len(ev.calls) :
             /\ ev.calls[i].before = ev.calls[i - 1].after
             /\ int(ev.calls[i].after[PatchPos(ev.calls[i])].n)
                    > int(ev.calls[i - 1].after[PatchPos(ev.calls[i - 1])].n)
             /\ ev.calls[i].where >= PatchPos(ev.calls[i - 1])

\* C7: a call of add_patch only adds lines, as one contiguous block: the
\* lines before the call are all there, unmodified and in order, the other
\* sections are untouched, and after add_patch the file in storage is the
\* in-memory document.
C7_OnlyAdds ==
    /\ \A call \in Calls :
          \E w \in 0..Len(call.before) :
              /\ Added(call) > 0
              /\ SubSeq(call.after, 1, w) = SubSeq(call.before, 1, w)
              /\ SubSeq(call.after, w + Added(call) + 1, Len(call.after))
                    = SubSeq(call.before, w + 1, Len(call.before))
    /\ (ev.op = "add_patch" /\ ~ev.err) =>
          /\ pkg(ev.pre) = ev.calls[1].before
          /\ pkg(content) = ev.calls[1].after
          /\ \A i \in 2..Len(ev.pre) : content[i] = ev.pre[i]
          /\ Len(content) = Len(ev.pre)
          /\ SpecContent(disk) = content
          /\ disk = pkg(content)
                    \o <<Header("%prep")>> \o section(content, "%prep")
                    \o <<Header("%changelog")>>
                    \o section(content, "%changelog")

\* "Source0: foo.tar.gz", an empty line, then %changelog: the block goes in
\* at the empty line and the changelog is kept
C7_Witness ==
    /\ ev.op = "add_patch" /\ ~ev.err
    /\ pkg(ev.pre) = <<Source0, Blank>>
    /\ pkg(content) = <<Source0, Blank, Line("#", <<>>, "fix"),
                        Line("Patch", <<0, 0, 0, 1>>, "a"), Blank>>
    /\ section(content, "%changelog") = <<LogLine>>

\* C8: when no empty line stands between the anchor (the last Patch tag,
\* the last Source tag when there are no patches) and the end of the main
\* section, add_patch does not fail and appends the block at the end of
\* the section: the insertion position is the section's length.
C8_AppendAtEnd ==
    /\ \A call \in Calls :
          EmptyFrom(call.before, DeclaredAnchor(call.before)) = {}
              => /\ call.where = Len(call.before)
                 /\ SubSeq(call.after, 1, Len(call.before)) = call.before
                 /\ PatchPos(call) = Len(call.after)
    /\ (/\ ev.op = "add_patch"
        /\ \E i \in 1..Len(pkg(ev.pre)) : pkg(ev.pre)[i].k \in {"Patch", "Source"}
        /\ EmptyFrom(pkg(ev.pre), DeclaredAnchor(pkg(ev.pre))) = {})
       => ~ev.err

C10_NoDuplicateNames ==
    (/\ ev.op = "set_patches" /\ ~ev.err
     /\ Cardinality(Names(pkg(ev.loaded))) = Len(PatchLines(pkg(ev.loaded))))
    => /\ Cardinality(Names(pkg(content))) = Len(PatchLines(pkg(content)))
       /\ set_patches_result(content, disk, ev.arg).content = content

====
